---- MODULE Spec2Model ----
(***************************************************************************)
(* Template path resolution of the Voila application                       *)
(* (src/voila/app.py: Voila.parse_command_line and                         *)
(* Voila._collect_template_paths).                                         *)
(*                                                                         *)
(* The filesystem is an input: which template package directories exist    *)
(* under which candidate root, and what each package's conf.json holds.    *)
(* The recursion of _collect_template_paths is an explicit stack of        *)
(* frames, each with a program position.                                   *)
(***************************************************************************)
EXTENDS Integers, Sequences, FiniteSets, TLC

\* ---------------------------------------------------------------- bounds

\* At most this many template package directories exist on disk.
MaxPkgs == 3

\* At most this many conventional subdirectories are missing on disk.
MaxMissing == 1

\* The interpreter's recursion limit, counted in frames of
\* _collect_template_paths (sys.getrecursionlimit(), scaled down).
RecursionLimit == 4

\* ------------------------------------------------------------ the inputs

\* The candidate roots: root 1 is ROOT/../share/jupyter/voila/template (the
\* development location), root 2 the one entry of jupyter_path().
Roots == {1, 2}

\* The names of the package directories that may be on disk.
DiskNames == {"default", "A", "B"}

\* The template names the code is given, as the template option or as a
\* base_template: a directory name, or 'default/', another spelling of the
\* directory 'default' that is not the string 'default'.
Names == DiskNames \cup {"default/"}

\* The directory name a template name spells: what os.path.abspath, the
\* filesystem and a further os.path.join make of a trailing separator.
Norm(n) == IF n = "default/" THEN "default" ELSE n

\* A JSON null: a base_template that is not a string.
NonStr == "<null>"

\* No base_template key in the manifest.
NoKey == "<nokey>"

\* The value of the template option: a name, or "" (also standing for None).
Templates == {"", "default", "A", "default/"}

\* The three conventional subdirectories, in the order the code probes them.
SubDirs == <<"nbconvert_templates", "static", "templates">>

\* os.path.join(<root r>, template_name): the path string, the name as given
PkgDir(r, n) == [root |-> r, name |-> n]

\* The directory on disk that the path string d names.
Disk(d) == [root |-> d.root, name |-> Norm(d.name)]

\* os.path.join(dirname, sub): a trailing separator of dirname is not doubled,
\* so two spellings of one directory give the same string.
SubPath(d, s) == [root |-> d.root, name |-> Norm(d.name), sub |-> s]

AllPkgs == {PkgDir(r, n) : r \in Roots, n \in DiskNames}

\* No directory: the value of dirname before the loop binds it.
NoDir == PkgDir(0, "")

\* jupyter_path('voila', 'template', template_name)
jupyter_path(n) == <<PkgDir(2, n)>>

\* A plausible slip: the installed locations before the development one.
template_directories_reversed(n) == jupyter_path(n) \o <<PkgDir(1, Norm(n))>>

\* lines 128-130: the development location first, made absolute and normal
\* by os.path.abspath, then jupyter_path().
template_directories(n) == <<PkgDir(1, Norm(n))>> \o jupyter_path(n)

\* paths.STATIC_ROOT = os.path.join(ROOT, 'static'), the default of static_root
STATIC_ROOT == [root |-> 0, name |-> "voila", sub |-> "static"]

\* What conf.json of a package can be: absent; not loadable by json.load;
\* a JSON array (loadable, but no object); or a JSON object whose
\* base_template is absent, a name or a non-string.
Manifests ==
    {[file |-> f, base |-> NoKey] : f \in {"absent", "malformed", "array"}}
    \cup {[file |-> "object", base |-> b] : b \in Names \cup {NoKey, NonStr}}

\* The values the static_root option is given: its default, or (through the
\* 'static' alias) the static directory of an installed template.
StaticRootChoices == {STATIC_ROOT, SubPath(PkgDir(1, "default"), "static")}

VARIABLES
    pkgs,                       \* the package directories that exist
    conf,                       \* conf.json of each existing package
    template,                   \* self.template
    static_root,                \* self.static_root
    status,                     \* "init", "running", "done" or "error"
    error,                      \* the exception that ended the run, or "none"
    stack,                      \* frames of _collect_template_paths
    nbconvert_template_paths,
    template_paths,
    static_paths,
    log,                        \* the warnings logged, in order
    probed,                     \* the subdirectory probes and their answers
    not_found                   \* the names whose loop matched no directory

vars == <<pkgs, conf, template, static_root, status, error, stack,
          nbconvert_template_paths, template_paths, static_paths, log, probed,
          not_found>>

fsvars == <<pkgs, conf, template, static_root>>

\* ------------------------------------------------------------- helpers

\* A plausible slip: list.append(x) for list.insert(0, x).
Insert0_append(list, x) == list \o <<x>>

\* list.insert(0, x)
Insert0(list, x) == <<x>> \o list

\* line 117: self.static_paths = [self.static_root]
initial_static_paths == <<static_root>>

Top == stack[Len(stack)]

Pop == SubSeq(stack, 1, Len(stack) - 1)

SetTop(f) == [stack EXCEPT ![Len(stack)] = f]

\* A new call of _collect_template_paths(template_name)
Frame(n) == [template_name |-> n, pc |-> "enter", idx |-> 1,
             dirname |-> NoDir]

\* A plausible slip: a name found nowhere falls back to 'default'.
LoopExhausted_fallback ==
    IF Top.template_name # "default" THEN SetTop(Frame("default")) ELSE Pop

\* lines 131 and 163: the for loop ends without a match; the call returns.
LoopExhausted == Pop

\* An uncaught exception leaves parse_command_line: every frame is unwound.
Raise(e) ==
    /\ status' = "error"
    /\ error' = e
    /\ stack' = <<>>
    /\ UNCHANGED <<nbconvert_template_paths, template_paths, static_paths,
                   log, probed, not_found>>

\* 'base_template' in conf (False for the empty dict of line 133 and for an
\* array without that string)
HasBase(m) == m.file = "object" /\ m.base # NoKey

\* conf.get('base_template', 'default')
BaseOf(m) == IF HasBase(m) THEN m.base ELSE "default"

\* A plausible slip: no implicit 'default' base.
NeedsBase_explicit_only(n, m) == HasBase(m)

\* line 140: the layer has a base to collect first
NeedsBase(n, m) == n # "default" \/ HasBase(m)

\* self.log.warning('template named %s found at path %r, but %s does not exist')
Warning(d, p) == [template |-> template, dirname |-> d, path |-> p]

\* A plausible slip: the test of os.path.exists without its "not".
RECURSIVE Warnings_inverted(_, _, _)
Warnings_inverted(d, ex, i) ==
    IF i > Len(SubDirs) THEN <<>>
    ELSE (IF ex[SubDirs[i]] THEN <<Warning(d, SubPath(d, SubDirs[i]))>> ELSE <<>>)
         \o Warnings_inverted(d, ex, i + 1)

\* The warnings of one layer, in the order of the three probes.
RECURSIVE Warnings(_, _, _)
Warnings(d, ex, i) ==
    IF i > Len(SubDirs) THEN <<>>
    ELSE (IF ex[SubDirs[i]] THEN <<>> ELSE <<Warning(d, SubPath(d, SubDirs[i]))>>)
         \o Warnings(d, ex, i + 1)

\* ---------------------------------------------------------------- Init

\* The state after construction, the static_root option drawn from S.
Start(S) ==
    /\ pkgs \in {P \in SUBSET AllPkgs : Cardinality(P) <= MaxPkgs}
    /\ conf \in [pkgs -> Manifests]
    /\ template \in Templates
    /\ static_root \in S
    /\ status = "init"
    /\ error = "none"
    /\ stack = <<>>
    /\ nbconvert_template_paths = <<>>
    /\ template_paths = <<>>
    /\ static_paths = <<>>
    /\ log = <<>>
    /\ probed = {}
    /\ not_found = {}

\* static_root left at its default.
Init == Start({STATIC_ROOT})

\* static_root configured as well.
InitConfigured == Start(StaticRootChoices)

\* ------------------------------------------------------------- actions

\* parse_command_line, lines 115-119: reset the three lists, then start the
\* collection when the template option is truthy.
parse_command_line ==
    /\ status = "init"
    /\ nbconvert_template_paths' = <<>>
    /\ template_paths' = <<>>
    /\ static_paths' = initial_static_paths
    /\ IF template # ""
       THEN /\ status' = "running"
            /\ stack' = <<Frame(template)>>
       ELSE /\ status' = "done"
            /\ stack' = <<>>
    /\ UNCHANGED <<fsvars, error, log, probed, not_found>>

\* _collect_template_paths, lines 128-130: build template_directories;
\* os.path.join raises TypeError on a template_name that is not a string.
collect_enter ==
    /\ status = "running" /\ stack # <<>> /\ Top.pc = "enter"
    /\ IF Top.template_name = NonStr
       THEN Raise("TypeError")
       ELSE /\ stack' = SetTop([Top EXCEPT !.pc = "scan", !.idx = 1])
            /\ UNCHANGED <<status, error, nbconvert_template_paths,
                           template_paths, static_paths, log, probed,
                           not_found>>
    /\ UNCHANGED fsvars

\* lines 131-132 and 163: one iteration of the for loop over
\* template_directories. A directory that exists is the one the body works
\* on, and the break at the end of the body keeps the later ones unread. The
\* loop running out returns from the call with nothing done and nothing
\* logged.
collect_scan ==
    /\ status = "running" /\ stack # <<>> /\ Top.pc = "scan"
    /\ LET dirs == template_directories(Top.template_name) IN
       IF Top.idx > Len(dirs)
       THEN /\ stack' = LoopExhausted
            /\ not_found' = not_found \cup {Top.template_name}
       ELSE /\ IF Disk(dirs[Top.idx]) \in pkgs
               THEN stack' = SetTop([Top EXCEPT !.pc = "conf",
                                      !.dirname = dirs[Top.idx]])
               ELSE stack' = SetTop([Top EXCEPT !.idx = Top.idx + 1])
            /\ UNCHANGED not_found
    /\ UNCHANGED <<fsvars, status, error, nbconvert_template_paths,
                   template_paths, static_paths, log, probed>>

\* lines 133-141: load conf.json when it exists (json.load raises on a file
\* that is not JSON), then call _collect_template_paths on the base before
\* this layer inserts anything (conf.get raises on a conf that is no dict; a
\* call beyond the recursion limit raises RecursionError).
collect_conf ==
    /\ status = "running" /\ stack # <<>> /\ Top.pc = "conf"
    /\ LET m == conf[Disk(Top.dirname)] IN
       IF m.file = "malformed"
       THEN Raise("JSONDecodeError")
       ELSE IF NeedsBase(Top.template_name, m)
            THEN IF m.file = "array"
                 THEN Raise("AttributeError")
                 ELSE IF Len(stack) >= RecursionLimit
                 THEN Raise("RecursionError")
                 ELSE /\ stack' = Append(SetTop([Top EXCEPT !.pc = "insert"]),
                                         Frame(BaseOf(m)))
                      /\ UNCHANGED <<status, error, nbconvert_template_paths,
                                     template_paths, static_paths, log, probed,
                                     not_found>>
            ELSE /\ stack' = SetTop([Top EXCEPT !.pc = "insert"])
                 /\ UNCHANGED <<status, error, nbconvert_template_paths,
                                template_paths, static_paths, log, probed,
                                not_found>>
    /\ UNCHANGED fsvars

\* lines 143-163: probe the three subdirectories (os.path.exists answers
\* ex, read from the disk at this point and the same for a path probed
\* before), warn for each missing one, insert each path at the front of its
\* list, break out of the loop, return.
collect_insert ==
    /\ status = "running" /\ stack # <<>> /\ Top.pc = "insert"
    /\ \E ex \in [{SubDirs[i] : i \in 1..Len(SubDirs)} -> BOOLEAN] :
        LET d == Top.dirname
            w == Warnings(d, ex, 1)
        IN  /\ \A pr \in probed : \A i \in 1..Len(SubDirs) :
                  pr.path = SubPath(d, SubDirs[i]) => pr.exists = ex[SubDirs[i]]
            /\ probed' = probed \cup
                  {[path |-> SubPath(d, SubDirs[i]), exists |-> ex[SubDirs[i]]] :
                      i \in 1..Len(SubDirs)}
            /\ Cardinality({pr \in probed' : ~pr.exists}) <= MaxMissing
            /\ log' = log \o w
            /\ nbconvert_template_paths' =
                  Insert0(nbconvert_template_paths, SubPath(d, "nbconvert_templates"))
            /\ static_paths' = Insert0(static_paths, SubPath(d, "static"))
            /\ template_paths' = Insert0(template_paths, SubPath(d, "templates"))
    /\ stack' = Pop
    /\ UNCHANGED <<fsvars, status, error, not_found>>

\* parse_command_line, lines 120-123: the collection returned.
parse_done ==
    /\ status = "running" /\ stack = <<>>
    /\ status' = "done"
    /\ UNCHANGED <<fsvars, error, stack, nbconvert_template_paths,
                   template_paths, static_paths, log, probed,
                           not_found>>

Next ==
    \/ parse_command_line
    \/ collect_enter
    \/ collect_scan
    \/ collect_conf
    \/ collect_insert
    \/ parse_done

Spec == Init /\ [][Next]_vars

SpecConfigured == InitConfigured /\ [][Next]_vars

\* ------------------------------------------- the collection as a function

\* The loop of lines 131-132 over a list of directories, on the filesystem
\* whose package directories are P: the first that exists, or NoDir.
RECURSIVE FirstIn(_, _, _)
FirstIn(P, dirs, i) ==
    IF i > Len(dirs) THEN NoDir
    ELSE IF Disk(dirs[i]) \in P THEN dirs[i]
    ELSE FirstIn(P, dirs, i + 1)

\* _collect_template_paths(n) called at recursion depth `depth`, as a
\* function of the filesystem (P: the package directories, C: their
\* conf.json): whether it returns, the exception if it does not, and the
\* package directories whose paths it inserts, the outermost layer first.
RECURSIVE Collect(_, _, _, _)
Collect(P, C, n, depth) ==
    IF n = NonStr
    THEN [ok |-> FALSE, error |-> "TypeError", layers |-> <<>>]
    ELSE LET d == FirstIn(P, template_directories(n), 1)
             m == C[Disk(d)]
         IN
         IF d = NoDir
         THEN [ok |-> TRUE, error |-> "none", layers |-> <<>>]
         ELSE IF m.file = "malformed"
         THEN [ok |-> FALSE, error |-> "JSONDecodeError", layers |-> <<>>]
         ELSE IF NeedsBase(n, m)
         THEN IF m.file = "array"
              THEN [ok |-> FALSE, error |-> "AttributeError", layers |-> <<>>]
              ELSE IF depth >= RecursionLimit
              THEN [ok |-> FALSE, error |-> "RecursionError", layers |-> <<>>]
              ELSE LET r == Collect(P, C, BaseOf(m), depth + 1) IN
                   IF r.ok
                   THEN [ok |-> TRUE, error |-> "none", layers |-> <<d>> \o r.layers]
                   ELSE r
         ELSE [ok |-> TRUE, error |-> "none", layers |-> <<d>>]

\* --------------------------------------------- vocabulary of the properties

Last(s) == s[Len(s)]

Front(s) == SubSeq(s, 1, Len(s) - 1)

Count(s, x) == Cardinality({i \in 1..Len(s) : s[i] = x})

NoDup(s) == \A i, j \in 1..Len(s) : s[i] = s[j] => i = j

\* The package directory on disk that a subdirectory path lies in.
DirOf(p) == PkgDir(p.root, p.name)

\* The subdirectory `sub` of each layer, in the layers' order.
PathsOf(layers, sub) == [i \in 1..Len(layers) |-> SubPath(layers[i], sub)]

\* The name has a package directory under some candidate root.
Found(n) == \E r \in Roots : PkgDir(r, Norm(n)) \in pkgs

\* The package directory on disk of a found name under its earliest
\* candidate root.
EarliestDir(n) ==
    PkgDir(CHOOSE r \in Roots :
               /\ PkgDir(r, Norm(n)) \in pkgs
               /\ \A q \in Roots : q < r => PkgDir(q, Norm(n)) \notin pkgs,
           Norm(n))

\* The manifest of the package directory d on disk declares a base_template.
Declares(d) == conf[d].file = "object" /\ conf[d].base # NoKey

\* The name the layer named n is based on: the base_template its selected
\* directory declares, 'default' otherwise.
BaseName(n) ==
    IF Found(n) /\ Declares(EarliestDir(n)) THEN conf[EarliestDir(n)].base
    ELSE "default"

\* The layer named n is the last of its chain: a found 'default' with no
\* declared base.
Terminal(n) == n = "default" /\ Found(n) /\ ~Declares(EarliestDir(n))

\* The name of the i-th layer of the chain from the requested template.
RECURSIVE ChainName(_)
ChainName(i) == IF i <= 1 THEN template ELSE BaseName(ChainName(i - 1))

\* The number of collected layers that hold the subdirectory path p.
LayersWith(p) ==
    Cardinality({i \in 1..Len(template_paths) :
                    p \in {template_paths[i], static_paths[i],
                           nbconvert_template_paths[i]}})

\* The filesystem without the package directories an earlier root shadows.
Unshadowed == {d \in pkgs : d = EarliestDir(d.name)}

\* The run of this state and of Collect on the same filesystem agree.
CollectAgrees ==
    (status \in {"done", "error"} /\ template # "") =>
        LET r == Collect(pkgs, conf, template, 1) IN
        /\ (status = "done") = r.ok
        /\ error = r.error
        /\ template_paths = PathsOf(r.layers, "templates")
        /\ nbconvert_template_paths = PathsOf(r.layers, "nbconvert_templates")
        /\ static_paths = PathsOf(r.layers, "static") \o <<static_root>>

\* ---------------------------------------------------------------- claims

\* C1, as stated: on completion the last element of static_paths is
\* static_root, and static_root occurs in static_paths exactly once.
C1_FallbackLastExactlyOnce ==
    status = "done" =>
        /\ static_paths # <<>>
        /\ Last(static_paths) = static_root
        /\ Count(static_paths, static_root) = 1

\* C2: on completion the three lists hold, position by position, the
\* subdirectories of the chain of found layers: the first layer is the
\* requested template, each next one the base of the one before it, each in
\* the package directory selected for its own name, and the chain is whole.
\* A -> B -> 'default' gives [A, B, default]; 'custom' found only under the
\* second root and based on 'default' found under the first gives
\* static_paths = [custom/static, default/static, fallback].
C2_Precedence ==
    (status = "done" /\ template # "") =>
        /\ Len(nbconvert_template_paths) = Len(template_paths)
        /\ Len(static_paths) = Len(template_paths) + 1
        /\ Found(template) => Len(template_paths) >= 1
        /\ \A i \in 1..Len(template_paths) :
              LET n == ChainName(i) IN
              /\ Found(n)
              /\ template_paths[i] = SubPath(EarliestDir(n), "templates")
              /\ static_paths[i] = SubPath(EarliestDir(n), "static")
              /\ nbconvert_template_paths[i] =
                    SubPath(EarliestDir(n), "nbconvert_templates")
              /\ (i = Len(template_paths)) = (Terminal(n) \/ ~Found(BaseName(n)))
        /\ ( /\ template = "A"
             /\ Found("A") /\ Found("B") /\ Found("default")
             /\ Declares(EarliestDir("A")) /\ BaseName("A") = "B"
             /\ Declares(EarliestDir("B")) /\ BaseName("B") = "default"
             /\ Terminal("default") )
           => template_paths = << SubPath(EarliestDir("A"), "templates"),
                                  SubPath(EarliestDir("B"), "templates"),
                                  SubPath(EarliestDir("default"), "templates") >>
        /\ ( /\ template = "A"
             /\ PkgDir(1, "A") \notin pkgs /\ PkgDir(2, "A") \in pkgs
             /\ Declares(PkgDir(2, "A")) /\ BaseName("A") = "default"
             /\ PkgDir(1, "default") \in pkgs
             /\ Terminal("default") )
           => /\ template_paths = << SubPath(PkgDir(2, "A"), "templates"),
                                     SubPath(PkgDir(1, "default"), "templates") >>
              /\ static_paths = << SubPath(PkgDir(2, "A"), "static"),
                                   SubPath(PkgDir(1, "default"), "static"),
                                   static_root >>

\* C2: a completed chain A -> B -> 'default' whose layers come from
\* different candidate roots.
C2_Witness ==
    /\ status = "done"
    /\ template_paths = << SubPath(PkgDir(2, "A"), "templates"),
                           SubPath(PkgDir(1, "B"), "templates"),
                           SubPath(PkgDir(2, "default"), "templates") >>

\* C3: first match wins. The directory a call works on is the one under the
\* earliest root that has the name; every path inserted lies in such a
\* directory; and the outcome of the resolution (completion or exception,
\* and the three lists) is the outcome on the filesystem with every package
\* directory under a later root removed.
C3_FirstMatchWins ==
    /\ \A i \in 1..Len(stack) :
          stack[i].pc \in {"conf", "insert"} =>
              Disk(stack[i].dirname) = EarliestDir(stack[i].template_name)
    /\ \A i \in 1..Len(template_paths) :
          /\ DirOf(template_paths[i]) \in Unshadowed
          /\ DirOf(static_paths[i]) \in Unshadowed
          /\ DirOf(nbconvert_template_paths[i]) \in Unshadowed
    /\ (status \in {"done", "error"} /\ template # "") =>
          LET r == Collect(Unshadowed, [d \in Unshadowed |-> conf[d]], template, 1) IN
          /\ (status = "done") = r.ok
          /\ error = r.error
          /\ template_paths = PathsOf(r.layers, "templates")
          /\ nbconvert_template_paths = PathsOf(r.layers, "nbconvert_templates")
          /\ static_paths = PathsOf(r.layers, "static") \o <<static_root>>

\* C3: a completed resolution of a template found under both roots, whose
\* manifest under the later root is not loadable.
C3_Witness ==
    /\ status = "done"
    /\ template = "A"
    /\ PkgDir(1, "A") \in pkgs /\ PkgDir(2, "A") \in pkgs
    /\ conf[PkgDir(2, "A")].file = "malformed"
    /\ Len(template_paths) = 2

\* C4, as stated: the resolution never ends in an exception.
C4_NeverAborts == status # "error"

\* C5: a name found under no root contributes no entry and ends the chain:
\* no entry of any list lies in a directory of that name, the layer whose
\* base it is is the last layer collected, and when the requested template
\* itself is found nowhere the lists are [], [] and [fallback].
C5_MissingLayerEndsChain ==
    /\ \A n \in not_found :
          /\ ~Found(n)
          /\ \A i \in 1..Len(template_paths) :
                /\ template_paths[i].name # Norm(n)
                /\ static_paths[i].name # Norm(n)
                /\ nbconvert_template_paths[i].name # Norm(n)
    /\ status = "done" =>
          /\ \A n \in not_found :
                IF template_paths = <<>>
                THEN n = template
                ELSE LET l == ChainName(Len(template_paths)) IN
                     ~Terminal(l) /\ BaseName(l) = n
          /\ (template # "" /\ ~Found(template)) =>
                /\ not_found = {template}
                /\ template_paths = <<>>
                /\ nbconvert_template_paths = <<>>
                /\ static_paths = <<static_root>>

\* C5: a completed resolution that stopped at a missing base although
\* 'default' is on disk.
C5_Witness ==
    /\ status = "done"
    /\ not_found = {"B"}
    /\ Len(template_paths) = 1
    /\ Found("default")

\* C6, as stated: a completed resolution that reached a name found under no
\* root has logged a warning for that name.
C6_WarnsMissingLayer ==
    status = "done" =>
        \A n \in not_found :
            \E i \in 1..Len(log) :
                log[i].dirname.name = n \/ log[i].path.name = n

\* C7: every subdirectory probed is inserted in its list whether it exists
\* or not, at the same position in the three lists for one layer; a missing
\* one has exactly one warning for each layer it belongs to, an existing one
\* none; no other warning is logged, and a resolution that has warned does
\* not end in an exception.
C7_MissingSubdirTolerated ==
    /\ \A pr \in probed :
          /\ \E i \in 1..Len(template_paths) :
                /\ pr.path \in {template_paths[i], static_paths[i],
                                nbconvert_template_paths[i]}
                /\ DirOf(template_paths[i]) = DirOf(pr.path)
                /\ template_paths[i].sub = "templates"
                /\ static_paths[i] = SubPath(DirOf(pr.path), "static")
                /\ nbconvert_template_paths[i] =
                      SubPath(DirOf(pr.path), "nbconvert_templates")
          /\ Cardinality({i \in 1..Len(log) : log[i].path = pr.path}) =
                IF pr.exists THEN 0 ELSE LayersWith(pr.path)
          /\ LayersWith(pr.path) >= 1
    /\ \A i \in 1..Len(log) :
          /\ [path |-> log[i].path, exists |-> FALSE] \in probed
          /\ Disk(log[i].dirname) = DirOf(log[i].path)
    /\ \A i \in 1..Len(template_paths) :
          \A s \in {"templates", "static", "nbconvert_templates"} :
              \E pr \in probed : pr.path = SubPath(DirOf(template_paths[i]), s)
    /\ log # <<>> => status \in {"running", "done"}

\* C7: a completed resolution of two layers, the base's static directory
\* missing.
C7_Witness ==
    /\ status = "done"
    /\ Len(template_paths) = 2
    /\ NoDup(template_paths)
    /\ Len(log) = 1
    /\ log[1].path = static_paths[2]

\* C8: for a found template other than 'default' with no manifest, the
\* resolution completes exactly when the resolution of 'default' on the same
\* filesystem does, and each list is then the template's own path followed
\* by the whole list of the resolution of 'default'.
C8_DefaultPrepended ==
    ( /\ status \in {"done", "error"}
      /\ template \notin {"", "default"}
      /\ Found(template)
      /\ conf[EarliestDir(template)].file = "absent" )
    => LET r == Collect(pkgs, conf, "default", 1)
           own == EarliestDir(template)
       IN  /\ (status = "done") = r.ok
           /\ status = "done" =>
                 /\ template_paths =
                       <<SubPath(own, "templates")>> \o PathsOf(r.layers, "templates")
                 /\ nbconvert_template_paths =
                       <<SubPath(own, "nbconvert_templates")>>
                       \o PathsOf(r.layers, "nbconvert_templates")
                 /\ static_paths =
                       <<SubPath(own, "static")>>
                       \o (PathsOf(r.layers, "static") \o <<static_root>>)

\* C8: a completed resolution of a template with no manifest over a
\* 'default' that declares a base of its own.
C8_Witness ==
    /\ status = "done"
    /\ template = "A"
    /\ Found("A") /\ conf[EarliestDir("A")].file = "absent"
    /\ Len(template_paths) = 2
    /\ Declares(DirOf(template_paths[2]))
    /\ not_found = {"B"}

\* C9, as stated: on completion no directory occurs twice in template_paths,
\* in static_paths or in nbconvert_template_paths.
C9_NoDuplicates ==
    status = "done" =>
        /\ NoDup(template_paths)
        /\ NoDup(static_paths)
        /\ NoDup(nbconvert_template_paths)

\* The chain of names of C10 from n reaches, within `fuel` names, a found
\* 'default' that declares no base or a name found under no root.
RECURSIVE ChainEnds(_, _)
ChainEnds(n, fuel) ==
    IF fuel = 0 THEN FALSE
    ELSE IF ~Found(n) THEN TRUE
    ELSE IF Terminal(n) THEN TRUE
    ELSE ChainEnds(BaseName(n), fuel - 1)

\* C10, as stated: the resolution of a name completes if and only if the
\* chain of layer names from it reaches a found 'default' with no declared
\* base or a name found under no root.
C10_TerminatesIffChainEnds ==
    (status \in {"done", "error"} /\ template # "") =>
        ((status = "done") <=> ChainEnds(template, Cardinality(Names) + 1))

TypeOK ==
    /\ status \in {"init", "running", "done", "error"}
    /\ Len(stack) <= RecursionLimit

====
